---- MODULE Spec2Model ----
(***************************************************************************)
(* Monitor Hub: the heartbeat endpoint (monitor_hub/app.py), the Watchdog  *)
(* sweep loop (monitor_hub/watchdog.py) and the Slack notifier's failure   *)
(* behaviour (monitor_hub/slack_notifier.py), over the two SQLite tables   *)
(* agents and heartbeat_log.                                               *)
(*                                                                         *)
(* Time is counted in whole hours.  Both coroutines run on one asyncio     *)
(* event loop and neither awaits real I/O (sqlite3 and the Slack WebClient *)
(* are synchronous), so a request handler runs only while the Watchdog is  *)
(* suspended in asyncio.sleep (or has not started / has returned).         *)
(***************************************************************************)
EXTENDS Integers, Sequences, FiniteSets, TLC

(* ---------------- bounds of the model ---------------- *)
MaxTime == 4
MaxReports == 2
MaxAlerts == 2
MaxRuns == 2
\* the timeout_hours the Watchdog is constructed with (ALERT_TIMEOUT_HOURS)
timeout_hours == 2

(* ---------------- values ---------------- *)
\* SQL NULL / Python None in a numeric or timestamp column
NULL == -1
\* SQL NULL in a TEXT column
NULLTEXT == "NULL"
\* expected_interval_hours INTEGER DEFAULT 24
DefaultInterval == 24

\* a0 is registered and never reports; a1 and a2 report
AgentNames == {"a1", "a2"}
\* the message the agent SDK sends with a status (agent_sdk: "Script completed
\* successfully" / the exception text); a malformed report carries any text
MessageOf(status) ==
    IF status = "success" THEN "completed"
    ELSE IF status = "error" THEN "traceback" ELSE "text"
\* the validation lets the watchdog's own status through
ValidStatusesMut == {"success", "error", "stale"}
ValidStatuses == {"success", "error"}
RequestStatuses == ValidStatuses \cup {"stale"}
Intervals == {1, NULL}
\* what one call of SlackNotifier._send_message can do: return, raise
\* SlackApiError (re-raised, then caught by send_*_alert), or raise any other
\* exception (e.g. a connection failure), which no caller catches
ChannelOutcomes == {"sent", "SlackApiError", "Exception"}

HeartbeatRequest ==
    {[agent_name |-> n, status |-> s, message |-> MessageOf(s),
      expected_interval_hours |-> e] :
        n \in AgentNames, s \in RequestStatuses, e \in Intervals}

VARIABLES
    agents,     \* table agents, in rowid order
    log,        \* table heartbeat_log, in rowid order
    alerts,     \* every call of send_error_alert / send_timeout_alert, in order
    response,   \* reply to the POST /heartbeat handled in the last step, else "none"
    now,        \* wall clock, hours
    running,    \* Watchdog.running
    pc,         \* where the Watchdog.start coroutine is
    rows,       \* cursor.fetchall() of the tick in progress (<<>> outside a tick)
    idx,        \* position of the for loop in rows (1 outside a tick)
    executions, \* agent side: the finished runs of code wrapped by the SDK
    effects,    \* the statements the last handler call executed, in order
    stop_called \* whether stop() has been called (recorded by StopObserved only)

vars == <<agents, log, alerts, response, now, running, pc, rows, idx, executions,
         effects, stop_called>>

(* ---------------- tables ---------------- *)
\* the positions of the rows of table t named n
RowsOf(t, n) == {i \in DOMAIN t : t[i].name = n}

RECURSIVE SelectSeq2(_, _)
\* rows of table t whose name is not n, order kept
SelectSeq2(t, n) ==
    IF t = <<>> THEN <<>>
    ELSE IF Head(t).name = n THEN SelectSeq2(Tail(t), n)
         ELSE <<Head(t)>> \o SelectSeq2(Tail(t), n)

\* INSERT OR IGNORE instead: an existing row is kept as it is
InsertOrIgnore(t, row) == IF RowsOf(t, row.name) = {} THEN Append(t, row) ELSE t

\* INSERT OR REPLACE INTO agents: name is UNIQUE, so a row with the same name
\* is deleted and the new row gets a fresh (largest) rowid
InsertOrReplace(t, row) == Append(SelectSeq2(t, row.name), row)

\* the UPDATE also overwriting last_message with a timeout text
UpdateStaleMessage(t, n) ==
    [i \in DOMAIN t |-> IF t[i].name = n
                        THEN [t[i] EXCEPT !.status = "stale", !.last_message = "timeout"]
                        ELSE t[i]]

\* UPDATE agents SET status = 'stale' WHERE name = ?
UpdateStale(t, n) ==
    [i \in DOMAIN t |-> IF t[i].name = n THEN [t[i] EXCEPT !.status = "stale"] ELSE t[i]]

\* a row inserted without a heartbeat: the column defaults of CREATE TABLE agents
RegisteredRow(n) ==
    [name |-> n, last_heartbeat |-> NULL, expected_interval_hours |-> DefaultInterval,
     status |-> "unknown", last_message |-> NULLTEXT]

\* the alert call is recorded while the record has room
Record(a) == IF Len(alerts) < MaxAlerts THEN Append(alerts, a) ELSE alerts

(* ---------------- initial state ---------------- *)
\* init_db has run; agents holds one row registered without a heartbeat (the
\* column defaults); the Watchdog is constructed and not started
Init ==
    /\ agents = <<RegisteredRow("a0")>>
    /\ log = <<>>
    /\ alerts = <<>>
    /\ response = "none"
    /\ now = 0
    /\ running = FALSE
    /\ pc = "idle"
    /\ rows = <<>>
    /\ idx = 1
    /\ executions = <<>>
    /\ effects = <<>>
    /\ stop_called = FALSE

\* the event loop can run another coroutine
Suspended == pc \in {"idle", "sleep", "done"}

(* ---------------- SlackNotifier ---------------- *)
\* send_error_alert / send_timeout_alert catch SlackApiError only: any other
\* exception of _send_message leaves them
Escapes(o) == o = "Exception"

\* a call of send_error_alert: its arguments (whether it raised shows in the
\* response)
ErrorAlert(h) ==
    [kind |-> "error", agent_name |-> h.agent_name, error_message |-> h.message]

\* a call of send_timeout_alert: the arguments that identify the alert, and
\* whether it raised
TimeoutAlert(row, o) ==
    [kind |-> "timeout", agent_name |-> row.name, last_heartbeat |-> row.last_heartbeat,
     raised |-> Escapes(o)]

(* ---------------- POST /heartbeat ---------------- *)
\* the row of INSERT OR REPLACE INTO agents
AgentRow(h, t) ==
    [name |-> h.agent_name, last_heartbeat |-> t,
     expected_interval_hours |-> h.expected_interval_hours,
     status |-> h.status, last_message |-> h.message]

\* the log row written without the report's message
LogEntryMut(h, t) ==
    [agent_name |-> h.agent_name, status |-> h.status,
     message |-> NULLTEXT, timestamp |-> t]

\* the row of INSERT INTO heartbeat_log
LogEntry(h, t) ==
    [agent_name |-> h.agent_name, status |-> h.status,
     message |-> h.message, timestamp |-> t]

\* every report alerts
AlertsOnReportMut(status) == TRUE

\* if heartbeat.status == "error"
AlertsOnReport(status) == status = "error"

\* the error alert dispatched before the transaction is committed
StatementsAlertFirst(status) ==
    IF AlertsOnReport(status)
    THEN <<"agents", "heartbeat_log", "send_error_alert", "commit">>
    ELSE <<"agents", "heartbeat_log", "commit">>

\* the statements of the handler for a valid report, in the order of the code:
\* INSERT OR REPLACE INTO agents, INSERT INTO heartbeat_log, conn.commit(),
\* and for an error report send_error_alert
Statements(status) ==
    IF AlertsOnReport(status)
    THEN <<"agents", "heartbeat_log", "commit", "send_error_alert">>
    ELSE <<"agents", "heartbeat_log", "commit">>

\* the handler of POST /heartbeat, run without interruption (it never yields)
receive_heartbeat(h) ==
    /\ IF h.status \notin ValidStatuses
       THEN \* HTTPException(400)
            /\ response' = "400"
            /\ effects' = <<>>
            /\ UNCHANGED <<agents, log, alerts>>
       ELSE /\ Len(log) < MaxReports
            /\ agents' = InsertOrReplace(agents, AgentRow(h, now))
            /\ log' = Append(log, LogEntry(h, now))
            /\ effects' = Statements(h.status)
            /\ IF AlertsOnReport(h.status)
               THEN /\ Len(alerts) < MaxAlerts
                    /\ alerts' = Record(ErrorAlert(h))
                    /\ \E o \in ChannelOutcomes :
                          \* an escaping exception becomes a 500 after the commit
                          response' = IF Escapes(o) THEN "500" ELSE "received"
               ELSE /\ alerts' = alerts
                    /\ response' = "received"
    /\ UNCHANGED <<now, running, pc, rows, idx, executions, stop_called>>

\* a request served by this process: between the steps of the Watchdog
Heartbeat == Suspended /\ \E h \in HeartbeatRequest : receive_heartbeat(h)

(* ---------------- Watchdog ---------------- *)
\* start(): running = True, then the first loop test
start ==
    /\ pc = "idle"
    /\ running' = TRUE
    /\ pc' = "check"
    /\ response' = "none"
    /\ effects' = <<>>
    /\ UNCHANGED <<agents, log, alerts, now, rows, idx, executions, stop_called>>

\* stop()
stop ==
    /\ Suspended
    /\ running' = FALSE
    /\ response' = "none"
    /\ effects' = <<>>
    /\ UNCHANGED <<agents, log, alerts, now, pc, rows, idx, executions>>

\* a call of stop() that is not recorded
Stop == stop /\ UNCHANGED stop_called

\* a call of stop() that is recorded
StopObserved == stop /\ stop_called' = TRUE

\* while self.running: check_all_agents() up to cursor.fetchall()
BeginSweep ==
    /\ pc = "check"
    /\ running
    /\ rows' = agents
    /\ idx' = 1
    /\ pc' = "scan"
    /\ response' = "none"
    /\ effects' = <<>>
    /\ UNCHANGED <<agents, log, alerts, now, running, executions, stop_called>>

\* the loop test fails: start() returns
ExitLoop ==
    /\ pc = "check"
    /\ ~running
    /\ pc' = "done"
    /\ response' = "none"
    /\ effects' = <<>>
    /\ UNCHANGED <<agents, log, alerts, now, running, rows, idx, executions, stop_called>>

\* a row without a heartbeat is treated as overdue instead of skipped
VerdictNoSkip(row, t) ==
    IF row.expected_interval_hours = NULL THEN "TypeError"
    ELSE IF row.last_heartbeat = NULL THEN "stale"
    ELSE IF (t - row.last_heartbeat) > row.expected_interval_hours THEN "stale"
    ELSE "fresh"

\* what the loop body decides for a fetched row at hour t: "skip" (no heartbeat
\* yet), "TypeError" (float > None), "stale" (hours_overdue > expected_interval;
\* the fetched status is not consulted) or "fresh"
Verdict(row, t) ==
    IF row.last_heartbeat = NULL THEN "skip"
    ELSE IF row.expected_interval_hours = NULL THEN "TypeError"
    ELSE IF (t - row.last_heartbeat) > row.expected_interval_hours THEN "stale"
    ELSE "fresh"

\* the exception of a tick leaving start(): the loop is over
AbortSweepFatal ==
    /\ pc' = "done"
    /\ rows' = <<>>
    /\ idx' = 1

\* an exception leaves check_all_agents: start() prints it and sleeps
AbortSweep ==
    /\ pc' = "sleep"
    /\ rows' = <<>>
    /\ idx' = 1

\* one iteration of the for loop of check_all_agents
SweepRow ==
    /\ pc = "scan"
    /\ idx <= Len(rows)
    /\ LET row == rows[idx]
           v == Verdict(row, now) IN
       IF v = "TypeError"
       THEN /\ AbortSweep
            /\ UNCHANGED <<agents, alerts>>
       ELSE IF v = "stale"
       THEN \E o \in ChannelOutcomes :
               /\ alerts' = Record(TimeoutAlert(row, o))
               /\ IF Escapes(o)
                  THEN \* raised before the UPDATE
                       /\ AbortSweep
                       /\ agents' = agents
                  ELSE /\ agents' = UpdateStale(agents, row.name)
                       /\ idx' = idx + 1
                       /\ UNCHANGED <<pc, rows>>
       ELSE \* "skip" (continue) or "fresh"
            /\ idx' = idx + 1
            /\ UNCHANGED <<agents, alerts, pc, rows>>
    /\ response' = "none"
    /\ effects' = <<>>
    /\ UNCHANGED <<log, now, running, executions, stop_called>>

\* the for loop is exhausted: conn.close(), then asyncio.sleep
EndSweep ==
    /\ pc = "scan"
    /\ idx > Len(rows)
    /\ pc' = "sleep"
    /\ rows' = <<>>
    /\ idx' = 1
    /\ response' = "none"
    /\ effects' = <<>>
    /\ UNCHANGED <<agents, log, alerts, now, running, executions, stop_called>>

\* asyncio.sleep returns
Wake ==
    /\ pc = "sleep"
    /\ pc' = "check"
    /\ response' = "none"
    /\ effects' = <<>>
    /\ UNCHANGED <<agents, log, alerts, now, running, rows, idx, executions, stop_called>>

\* an hour passes
Advance ==
    /\ Suspended
    /\ now < MaxTime
    /\ now' = now + 1
    /\ response' = "none"
    /\ effects' = <<>>
    /\ UNCHANGED <<agents, log, alerts, running, pc, rows, idx, executions, stop_called>>

\* rows a tick can alert for
Reported(t) == {i \in DOMAIN t : t[i].last_heartbeat # NULL}

\* a tick starts while the alert record has room for one alert per such row
Tick == Len(alerts) + Cardinality(Reported(agents)) <= MaxAlerts /\ BeginSweep

Next ==
    \/ Heartbeat
    \/ start
    \/ Stop
    \/ Tick
    \/ ExitLoop
    \/ SweepRow
    \/ EndSweep
    \/ Wake
    \/ Advance

Spec == Init /\ [][Next]_vars

TypeOK ==
    /\ now \in 0..MaxTime
    /\ Len(log) <= MaxReports
    /\ Len(alerts) <= MaxAlerts
    /\ pc \in {"idle", "check", "scan", "sleep", "done"}

(* ======================= properties ======================= *)
\* the for loop is about to run its body on rows[idx]
AtRow == pc = "scan" /\ idx <= Len(rows)

\* the statuses stored under name n in table t
StatusOf(t, n) == {t[i].status : i \in RowsOf(t, n)}

\* C1: one timeout alert per stale episode: a loop iteration that finds the
\* agent's fetched status already stale makes no alert call.
C1_StaleAgentNotRealerted ==
    [][(AtRow /\ rows[idx].status = "stale") => alerts' = alerts]_vars

\* C2: a loop iteration on a row with a heartbeat, a status other than stale and
\* more than expected_interval elapsed leaves the agent stale and makes exactly
\* one timeout alert call for it; with at most expected_interval elapsed it
\* changes no row and makes no alert call.
C2_TickMarksOverdueOnce ==
    [][(AtRow /\ rows[idx].last_heartbeat # NULL /\ rows[idx].status # "stale"
             /\ rows[idx].expected_interval_hours # NULL)
        => IF now - rows[idx].last_heartbeat > rows[idx].expected_interval_hours
           THEN /\ StatusOf(agents', rows[idx].name) = {"stale"}
                /\ Len(alerts') = Len(alerts) + 1
                /\ SubSeq(alerts', 1, Len(alerts)) = alerts
                /\ alerts'[Len(alerts')].kind = "timeout"
                /\ alerts'[Len(alerts')].agent_name = rows[idx].name
           ELSE agents' = agents /\ alerts' = alerts]_vars

\* C3: after a report with status success or error for name N is processed,
\* agents holds exactly one row for N, and its status, last_message,
\* expected_interval_hours are the report's and its last_heartbeat is the time
\* the server received it, whatever the table held before.
C3_ReportOverwritesRow ==
    [][\A h \in HeartbeatRequest :
          (h.status \in {"success", "error"} /\ receive_heartbeat(h))
          => /\ Cardinality(RowsOf(agents', h.agent_name)) = 1
             /\ \A i \in RowsOf(agents', h.agent_name) :
                   /\ agents'[i].status = h.status
                   /\ agents'[i].last_message = h.message
                   /\ agents'[i].expected_interval_hours = h.expected_interval_hours
                   /\ agents'[i].last_heartbeat = now]_vars

\* a second report for a name has replaced a row with another status
C3_Witness ==
    /\ Len(log) = 2
    /\ log[1].agent_name = log[2].agent_name
    /\ log[1].status # log[2].status
    /\ log[1].timestamp < log[2].timestamp
    /\ \E i \in RowsOf(agents, log[2].agent_name) :
          /\ agents[i].status = log[2].status
          /\ agents[i].last_heartbeat = log[2].timestamp
          /\ agents[i].expected_interval_hours = NULL

\* C4: a report with status error makes exactly one error alert call and one
\* heartbeat_log row and leaves the agent's status error, also over a stale
\* row; a report with status success makes no alert call.
C4_ErrorReportAlertsOnce ==
    [][\A h \in HeartbeatRequest :
          /\ (h.status = "error" /\ receive_heartbeat(h))
             => /\ alerts' = Append(alerts, [kind |-> "error", agent_name |-> h.agent_name,
                                             error_message |-> h.message])
                /\ Len(log') = Len(log) + 1
                /\ StatusOf(agents', h.agent_name) = {"error"}
          /\ (h.status = "success" /\ receive_heartbeat(h))
             => alerts' = alerts]_vars

\* an error report has arrived for an agent a tick had marked stale
C4_Witness ==
    \E i, j \in DOMAIN alerts :
        /\ i < j
        /\ alerts[i].kind = "timeout" /\ ~alerts[i].raised
        /\ alerts[j].kind = "error"
        /\ alerts[i].agent_name = alerts[j].agent_name
        /\ response \in {"received", "500"}
        /\ log[Len(log)].status = "error"
        /\ log[Len(log)].agent_name = alerts[j].agent_name
        /\ StatusOf(agents, alerts[j].agent_name) = {"error"}

\* the timeout alert calls made for agent n that returned: each marked n stale
Marked(n) == {i \in DOMAIN alerts : /\ alerts[i].kind = "timeout"
                                    /\ alerts[i].agent_name = n
                                    /\ ~alerts[i].raised}

\* C5: a report for a stale agent moves it out of stale; a tick makes no
\* timeout alert call for an agent within expected_interval of its heartbeat;
\* and once an agent that was stale and reported again is overdue from the new
\* heartbeat, the tick that sees it marks it stale and makes a new alert call.
C5_ReportRearmsWatchdog ==
    [][/\ \A h \in HeartbeatRequest :
             (h.status \in {"success", "error"} /\ receive_heartbeat(h)
                 /\ "stale" \in StatusOf(agents, h.agent_name))
             => StatusOf(agents', h.agent_name) = {h.status}
       /\ (AtRow /\ Verdict(rows[idx], now) = "fresh") => alerts' = alerts
       /\ (AtRow /\ Verdict(rows[idx], now) = "stale" /\ rows[idx].status # "stale"
                 /\ \E i \in Marked(rows[idx].name) :
                        alerts[i].last_heartbeat < rows[idx].last_heartbeat)
          => /\ StatusOf(agents', rows[idx].name) = {"stale"}
             /\ Len(alerts') = Len(alerts) + 1
             /\ alerts'[Len(alerts')].kind = "timeout"
             /\ alerts'[Len(alerts')].agent_name = rows[idx].name
             /\ alerts'[Len(alerts')].last_heartbeat = rows[idx].last_heartbeat]_vars

(* ---------------- the Watchdog under fair scheduling ---------------- *)
\* the same steps with ticks as long as the loop runs (alert calls beyond
\* MaxAlerts are not recorded); the event loop keeps running the Watchdog task
FairNext ==
    \/ Heartbeat
    \/ start
    \/ Stop
    \/ BeginSweep
    \/ ExitLoop
    \/ SweepRow
    \/ EndSweep
    \/ Wake
    \/ Advance

FairSpec ==
    /\ Init
    /\ [][FairNext]_vars
    /\ WF_vars(start)
    /\ WF_vars(BeginSweep)
    /\ WF_vars(SweepRow)
    /\ WF_vars(EndSweep)
    /\ WF_vars(Wake)

\* agent n has a recorded heartbeat and has been silent for more than its
\* expected_interval
SilentTooLong(n) ==
    \E i \in RowsOf(agents, n) :
        /\ agents[i].last_heartbeat # NULL
        /\ agents[i].expected_interval_hours # NULL
        /\ now - agents[i].last_heartbeat > agents[i].expected_interval_hours

\* agent n is stale and a timeout alert call was made for its heartbeat
StaleAndAlerted(n) ==
    \E i \in RowsOf(agents, n) :
        /\ agents[i].status = "stale"
        /\ \/ Len(alerts) = MaxAlerts
           \/ \E k \in DOMAIN alerts : /\ alerts[k].kind = "timeout"
                                       /\ alerts[k].agent_name = n
                                       /\ alerts[k].last_heartbeat = agents[i].last_heartbeat

\* stop() was called on the started Watchdog
Stopped == pc # "idle" /\ ~running

\* C6: while the Watchdog keeps ticking, an agent that has a heartbeat and has
\* been silent longer than its expected_interval is eventually stale with a
\* timeout alert call made for it (or reports again), whatever other rows the
\* table holds.
C6_SilentAgentEventuallyStale ==
    \A n \in AgentNames :
        SilentTooLong(n) ~> (StaleAndAlerted(n) \/ ~SilentTooLong(n) \/ Stopped)

\* C7: a loop iteration never changes a row whose last_heartbeat is NULL and
\* never makes a timeout alert call for its name, and the iteration on such a
\* row goes on to the next row.
C7_NoHeartbeatNeverSwept ==
    [][AtRow =>
        /\ \A i \in DOMAIN agents :
              agents[i].last_heartbeat = NULL
              => /\ i \in DOMAIN agents' /\ agents'[i] = agents[i]
                 /\ \A k \in DOMAIN alerts' \ DOMAIN alerts :
                       alerts'[k].agent_name # agents[i].name
        /\ rows[idx].last_heartbeat = NULL
              => (alerts' = alerts /\ agents' = agents /\ pc' = "scan" /\ idx' = idx + 1)]_vars

\* a tick went over the never-heard row and then alerted for another agent
C7_Witness ==
    /\ pc = "scan"
    /\ idx > Len(rows)
    /\ Len(rows) >= 2
    /\ rows[1].last_heartbeat = NULL
    /\ agents[1] = RegisteredRow("a0")
    /\ Len(alerts) > 0
    /\ alerts[Len(alerts)].kind = "timeout"
    /\ StatusOf(agents, alerts[Len(alerts)].agent_name) = {"stale"}

\* C8: a report that passes validation adds exactly one heartbeat_log row, with
\* the report's agent_name, status and message, and nothing else changes the
\* log: the log has one row per accepted report.
C8_OneLogEntryPerReport ==
    [][/\ \A h \in HeartbeatRequest :
             (h.status \in {"success", "error"} /\ receive_heartbeat(h))
             => /\ Len(log') = Len(log) + 1
                /\ SubSeq(log', 1, Len(log)) = log
                /\ log'[Len(log')].agent_name = h.agent_name
                /\ log'[Len(log')].status = h.status
                /\ log'[Len(log')].message = h.message
       /\ log' # log
             => \E h \in HeartbeatRequest :
                   h.status \in {"success", "error"} /\ receive_heartbeat(h)]_vars

\* two reports of different agents and statuses are in the log
C8_Witness ==
    /\ Len(log) = 2
    /\ log[1].agent_name # log[2].agent_name
    /\ log[1].status # log[2].status
    /\ log[1].message # log[2].message
    /\ response \in {"received", "500"}

\* C9: a report whose status is neither success nor error is answered 400 and
\* changes neither table and makes no alert call.
C9_BadStatusRejected ==
    [][\A h \in HeartbeatRequest :
          (h.status \notin {"success", "error"} /\ receive_heartbeat(h))
          => /\ response' = "400"
             /\ UNCHANGED <<agents, log, alerts>>]_vars

\* a malformed report was rejected after reports had been stored
C9_Witness ==
    /\ response = "400"
    /\ Len(log) > 0
    /\ Len(agents) > 1

\* C10: a failing alert call never leaves the handler or the tick: an error
\* report is answered with the acknowledgment, its rows written, and the
\* iteration that alerts goes on to the next row.
C10_DispatchFailureContained ==
    [][/\ \A h \in HeartbeatRequest :
             (h.status = "error" /\ receive_heartbeat(h))
             => /\ response' = "received"
                /\ Len(log') = Len(log) + 1
                /\ StatusOf(agents', h.agent_name) = {"error"}
       /\ (AtRow /\ Verdict(rows[idx], now) = "stale")
             => (pc' = "scan" /\ idx' = idx + 1)]_vars

(* ---------------- agent SDK (agent_sdk/__init__.py) ---------------- *)
\* how the wrapped code ends: it returns, or raises an Exception, or raises a
\* BaseException that is no Exception (sys.exit(), Ctrl-C)
Faults == {"return", "Exception", "SystemExit", "KeyboardInterrupt"}

\* requests.post returns, or raises a RequestException that send_heartbeat
\* catches and prints
SendOutcomes == {"posted", "RequestException"}

\* one call of send_heartbeat
send_heartbeat(status, o) == [status |-> status, posted |-> (o = "posted")]

\* wrapper(): try / except Exception around func and the success heartbeat
monitor_wrapper(fault, o) ==
    [wrapper |-> "monitor", fault |-> fault,
     reports |-> IF fault = "return" THEN <<send_heartbeat("success", o)>>
                 ELSE IF fault = "Exception" THEN <<send_heartbeat("error", o)>>
                 ELSE <<>>,
     propagated |-> fault]

\* MonitorContext.__exit__: exc_type is None or not; returns False
MonitorContext_exit(fault, o) ==
    [wrapper |-> "MonitorContext", fault |-> fault,
     reports |-> IF fault = "return" THEN <<send_heartbeat("success", o)>>
                 ELSE <<send_heartbeat("error", o)>>,
     propagated |-> fault]

hubVars == <<agents, log, alerts, response, now, running, pc, rows, idx,
            effects, stop_called>>

\* a run of a function decorated with @monitor
RunDecorated ==
    /\ Len(executions) < MaxRuns
    /\ \E f \in Faults, o \in SendOutcomes :
          executions' = Append(executions, monitor_wrapper(f, o))
    /\ UNCHANGED hubVars

\* a run of a with MonitorContext(...) block
RunInContext ==
    /\ Len(executions) < MaxRuns
    /\ \E f \in Faults, o \in SendOutcomes :
          executions' = Append(executions, MonitorContext_exit(f, o))
    /\ UNCHANGED hubVars

SdkNext ==
    \/ RunDecorated
    \/ RunInContext

SdkSpec == Init /\ [][SdkNext]_vars

\* C11: every run under either wrapper makes exactly one send_heartbeat call,
\* with status success if the code returned and error if it raised anything,
\* and the caller gets the code's own outcome.
C11_WrapperReportsOnce ==
    \A i \in DOMAIN executions :
        /\ Len(executions[i].reports) = 1
        /\ executions[i].reports[1].status =
              (IF executions[i].fault = "return" THEN "success" ELSE "error")
        /\ executions[i].propagated = executions[i].fault

\* C12: an exception while one row is handled does not end the tick: every
\* iteration is followed by the iteration on the next row of the same
\* snapshot.
C12_RowFailureIsolated ==
    [][AtRow => (pc' = "scan" /\ rows' = rows /\ idx' = idx + 1)]_vars

\* C15: the agent is set to stale before its timeout alert call is made: no
\* timeout alert call exists for a heartbeat whose row is not stale.
C15_StaleBeforeAlert ==
    \A k \in DOMAIN alerts :
        alerts[k].kind = "timeout"
        => \A i \in RowsOf(agents, alerts[k].agent_name) :
              agents[i].last_heartbeat = alerts[k].last_heartbeat
              => agents[i].status = "stale"

\* C16: heartbeat_log only grows at its end, holds only rows of status
\* success or error, and no step of the Watchdog changes it.
C16_LogAppendOnly ==
    [][/\ Len(log') >= Len(log)
       /\ SubSeq(log', 1, Len(log)) = log
       /\ \A i \in DOMAIN log' : log'[i].status \in {"success", "error"}
       /\ (pc \in {"check", "scan"} \/ pc' # pc) => log' = log]_vars

\* a tick has marked a logged agent stale and the log still holds its report
C16_Witness ==
    /\ Len(log) = 2
    /\ \E i \in DOMAIN agents, k \in DOMAIN log :
          /\ agents[i].status = "stale"
          /\ log[k].agent_name = agents[i].name
          /\ log[k].timestamp = agents[i].last_heartbeat
          /\ log[k].status \in {"success", "error"}

\* C19: a row with a heartbeat and a NULL expected_interval_hours is judged
\* against timeout_hours: stale and alerted for once more than timeout_hours
\* have passed, left alone before; a row with its own interval is judged by
\* that interval.
C19_DefaultTimeoutUsed ==
    [][/\ (AtRow /\ rows[idx].last_heartbeat # NULL
                 /\ rows[idx].expected_interval_hours = NULL)
          => IF now - rows[idx].last_heartbeat > timeout_hours
             THEN /\ StatusOf(agents', rows[idx].name) = {"stale"}
                  /\ Len(alerts') = Len(alerts) + 1
                  /\ alerts'[Len(alerts')].kind = "timeout"
                  /\ alerts'[Len(alerts')].agent_name = rows[idx].name
             ELSE /\ agents' = agents /\ alerts' = alerts
                  /\ pc' = "scan" /\ idx' = idx + 1
       /\ (AtRow /\ rows[idx].last_heartbeat # NULL
                 /\ rows[idx].expected_interval_hours # NULL
                 /\ now - rows[idx].last_heartbeat <= rows[idx].expected_interval_hours)
          => alerts' = alerts]_vars

\* C20 as claimed: the iteration that turns a row stale replaces its
\* last_message.
C20_TimeoutReplacesMessage ==
    [][AtRow =>
        \A i \in DOMAIN agents :
            (agents'[i].status = "stale" /\ agents[i].status # "stale")
            => agents'[i].last_message # agents[i].last_message]_vars

\* C20 as amended: last_message is replaced by every report and by nothing
\* else: an iteration of the tick, also one that turns the row stale, leaves
\* every row's last_message as it was.
C20_MessageFromLastReport ==
    [][/\ \A h \in HeartbeatRequest :
             (h.status \in {"success", "error"} /\ receive_heartbeat(h))
             => \A i \in RowsOf(agents', h.agent_name) :
                   agents'[i].last_message = h.message
       /\ AtRow => /\ DOMAIN agents' = DOMAIN agents
                   /\ \A i \in DOMAIN agents :
                         agents'[i].last_message = agents[i].last_message]_vars

\* a stale row still shows the message of its last report
C20_Witness ==
    \E i \in DOMAIN agents, k \in DOMAIN log :
        /\ agents[i].status = "stale"
        /\ log[k].agent_name = agents[i].name
        /\ log[k].timestamp = agents[i].last_heartbeat
        /\ agents[i].last_message = log[k].message

(* ---------------- the loop of start(), one agent reporting ---------------- *)
\* the requests of a single agent
HeartbeatOfOne ==
    /\ Suspended
    /\ \E h \in HeartbeatRequest : h.agent_name = "a1" /\ receive_heartbeat(h)

LoopNext ==
    \/ HeartbeatOfOne
    \/ start
    \/ Stop
    \/ BeginSweep
    \/ ExitLoop
    \/ SweepRow
    \/ EndSweep
    \/ Wake
    \/ Advance

\* the coroutine of start() is always scheduled again by the event loop
LoopSpec ==
    /\ Init
    /\ [][LoopNext]_vars
    /\ WF_vars(start)
    /\ WF_vars(BeginSweep)
    /\ WF_vars(SweepRow)
    /\ WF_vars(EndSweep)
    /\ WF_vars(Wake)

\* C18: an exception inside a tick never ends the loop: the failing tick is
\* followed by the sleep with running untouched, the loop is over only once
\* running is false, and while running stays true every sleep is followed by
\* another tick.
C18_LoopSurvivesTickFailure ==
    /\ [][(AtRow /\ pc' # "scan") => (pc' = "sleep" /\ running' = running)]_vars
    /\ [](pc = "done" => ~running)
    /\ (pc = "sleep" /\ running) ~> (pc = "scan" \/ ~running)

\* a tick is under way after an earlier tick ended in an escaped exception
C18_Witness ==
    /\ pc = "scan"
    /\ running
    /\ \E k \in DOMAIN alerts : alerts[k].kind = "timeout" /\ alerts[k].raised

(* ---------------- a report from another process during a tick ---------------- *)
\* the registry is a SQLite file: a report served by another process sharing
\* it is committed between two iterations of this process's tick
LateReport ==
    /\ pc = "scan"
    /\ \E h \in HeartbeatRequest : receive_heartbeat(h)

RaceNext ==
    \/ Next
    \/ LateReport

RaceSpec == Init /\ [][RaceNext]_vars

\* C13: the tick writes stale only for a row that is overdue as it is stored
\* at the moment of the write: a report committed after the snapshot keeps
\* its status.
C13_StaleOnlyIfStoredOverdue ==
    [][AtRow =>
        \A i \in DOMAIN agents :
            (agents[i].status # "stale" /\ agents'[i].status = "stale")
            => /\ agents[i].last_heartbeat # NULL
               /\ agents[i].expected_interval_hours # NULL
               /\ now - agents[i].last_heartbeat > agents[i].expected_interval_hours]_vars

(* ---------------- the order of the handler's statements ---------------- *)
\* x is executed before y in the sequence of statements s
Before(s, x, y) == \E i, j \in DOMAIN s : i < j /\ s[i] = x /\ s[j] = y

StopNext ==
    \/ Heartbeat
    \/ start
    \/ StopObserved
    \/ BeginSweep
    \/ ExitLoop
    \/ SweepRow
    \/ EndSweep
    \/ Wake
    \/ Advance

\* the coroutine of start() is always scheduled again by the event loop
StopSpec ==
    /\ Init
    /\ [][StopNext]_vars
    /\ WF_vars(start)
    /\ WF_vars(BeginSweep)
    /\ WF_vars(ExitLoop)
    /\ WF_vars(SweepRow)
    /\ WF_vars(EndSweep)
    /\ WF_vars(Wake)

\* C17: once stop() has been called no tick begins, and the loop of start()
\* comes to its end.
C17_StopEndsLoop ==
    /\ [][stop_called => ~(pc = "check" /\ pc' = "scan")]_vars
    /\ stop_called ~> (pc = "done")

(* ---------------- the registry as a view of the log ---------------- *)
\* k is the position of the log entry written last for the agent named n
LatestEntry(k, n) ==
    /\ k \in DOMAIN log
    /\ log[k].agent_name = n
    /\ \A j \in DOMAIN log : j > k => log[j].agent_name # n

\* row i shows its agent's latest log entry: the entry's time, and the
\* entry's status or stale
ShowsLatest(i) ==
    \E k \in DOMAIN log :
        /\ LatestEntry(k, agents[i].name)
        /\ agents[i].last_heartbeat = log[k].timestamp
        /\ agents[i].status \in {log[k].status, "stale"}

\* a step of the tick
SweepStep == BeginSweep \/ SweepRow \/ EndSweep

\* a step of the tick leaves every row's last_heartbeat and
\* expected_interval_hours as they were
SweepKeepsHeartbeat ==
    SweepStep =>
        /\ DOMAIN agents' = DOMAIN agents
        /\ \A i \in DOMAIN agents :
              /\ agents'[i].name = agents[i].name
              /\ agents'[i].last_heartbeat = agents[i].last_heartbeat
              /\ agents'[i].expected_interval_hours = agents[i].expected_interval_hours

====
